---------------------------- MODULE Spec2Model ----------------------------
(***************************************************************************)
(* Model of the hex-grid game template, starting with app/lib/hexgrid.ts:  *)
(* cube/axial coordinates, their conversion to and from points of the      *)
(* plane, rounding, neighbours and distance.                               *)
(*                                                                         *)
(* JavaScript numbers are modelled by their real values.  Every value the  *)
(* code computes from integer or rational inputs with +, -, *, / and       *)
(* Math.sqrt(3) lies in the field Q(sqrt 3); a number is the record        *)
(* [a, b, d] standing for (a + b*sqrt(3)) / d, kept in lowest terms with   *)
(* d > 0, so that equal numbers are equal records.  Comparison, Math.abs,  *)
(* Math.max and Math.round are computed exactly on that representation.    *)
(* The rounding error of IEEE-754 doubles is not part of the model.        *)
(***************************************************************************)
EXTENDS Integers, Sequences, FiniteSets, TLC

-----------------------------------------------------------------------------
(* Integer helpers                                                         *)

Abs(n) == IF n < 0 THEN -n ELSE n

Sgn(n) == IF n < 0 THEN -1 ELSE IF n > 0 THEN 1 ELSE 0

RECURSIVE GCD(_, _)
GCD(m, n) == IF n = 0 THEN m ELSE GCD(n, m % n)

\* Largest k in lo..hi with k*k <= n (lo*lo <= n is assumed).
RECURSIVE ISqrtIn(_, _, _)
ISqrtIn(n, lo, hi) ==
    IF lo >= hi THEN lo
    ELSE LET mid == (lo + hi + 1) \div 2
         IN  IF mid * mid <= n THEN ISqrtIn(n, mid, hi)
                               ELSE ISqrtIn(n, lo, mid - 1)

\* floor(sqrt(n)) for 0 <= n < 2^31.
ISqrt(n) == ISqrtIn(n, 0, 46340)

-----------------------------------------------------------------------------
(* Numbers: elements of Q(sqrt 3)                                          *)

\* (a + b*sqrt(3)) / d in lowest terms, d > 0.
Norm(a, b, d) ==
    LET g == GCD(GCD(Abs(a), Abs(b)), Abs(d))
        k == IF d < 0 THEN -g ELSE g
    IN  [a |-> a \div k, b |-> b \div k, d |-> d \div k]

\* The integer literal n.
N(n) == [a |-> n, b |-> 0, d |-> 1]

\* Math.sqrt(3)
Sqrt3 == [a |-> 0, b |-> 1, d |-> 1]

\* x + y
NAdd(x, y) ==
    IF x.d = y.d
    THEN Norm(x.a + y.a, x.b + y.b, x.d)
    ELSE Norm(x.a * y.d + y.a * x.d, x.b * y.d + y.b * x.d, x.d * y.d)

\* -x
NNeg(x) == [a |-> -x.a, b |-> -x.b, d |-> x.d]

\* x - y
NSub(x, y) == NAdd(x, NNeg(y))

\* x * y
NMul(x, y) ==
    Norm(x.a * y.a + 3 * x.b * y.b, x.a * y.b + x.b * y.a, x.d * y.d)

\* x / y, y # 0: multiply by the conjugate of y's numerator.
NDiv(x, y) ==
    LET num == NMul(x, [a |-> y.a * y.d, b |-> -(y.b * y.d), d |-> 1])
        den == y.a * y.a - 3 * y.b * y.b
    IN  Norm(num.a, num.b, num.d * den)

\* The sign of x: -1, 0 or 1.  a and b of opposite sign are compared
\* through a^2 and 3*b^2 (never equal, sqrt(3) being irrational), after
\* division by their common factor.
NSign(x) ==
    IF x.b = 0 THEN Sgn(x.a)
    ELSE IF x.a = 0 THEN Sgn(x.b)
    ELSE IF Sgn(x.a) = Sgn(x.b) THEN Sgn(x.a)
    ELSE LET g == GCD(Abs(x.a), Abs(x.b))
             m == x.a \div g
             n == x.b \div g
         IN  IF m * m > 3 * n * n THEN Sgn(x.a) ELSE Sgn(x.b)

\* x > y
NGt(x, y) == NSign(NSub(x, y)) > 0

\* x >= y
NGe(x, y) == NSign(NSub(x, y)) >= 0

\* Math.abs(x)
NAbs(x) == IF NSign(x) < 0 THEN NNeg(x) ELSE x

\* Math.max(x, y)
NMax(x, y) == IF NGe(x, y) THEN x ELSE y

\* Math.floor(x), as a TLA+ integer.  For b # 0, b*sqrt(3) lies strictly
\* between two consecutive integers, which leaves two candidates.
NFloor(x) ==
    IF x.b = 0 THEN x.a \div x.d
    ELSE LET t  == ISqrt(3 * x.b * x.b)
             lo == (x.a + (IF x.b > 0 THEN t ELSE -(t + 1))) \div x.d
             hi == (x.a + (IF x.b > 0 THEN t + 1 ELSE -t)) \div x.d
         IN  IF NGe(x, N(hi)) THEN hi ELSE lo

\* Math.round(x): the nearest integer, a tie going to the larger one,
\* i.e. floor(x + 1/2).
NRound(x) == N(NFloor(NAdd(x, [a |-> 1, b |-> 0, d |-> 2])))

-----------------------------------------------------------------------------
(* app/lib/hexgrid.ts                                                      *)

\* Mutant of hex: the unary minus on q is lost.
hex_LostMinus(q, r) == [q |-> q, r |-> r, s |-> NSub(q, r)]

\* hex(q, r): a cube coordinate from its axial part.
hex(q, r) == [q |-> q, r |-> r, s |-> NSub(NNeg(q), r)]

\* Mutant of hexToPixel: the factor 1/2 of sqrt(3) * q is lost.
hexToPixel_NoHalf(h, size) ==
    [x |-> NMul(size, NMul(NDiv(N(3), N(2)), h.q)),
     y |-> NMul(size, NAdd(NMul(Sqrt3, h.q), NMul(Sqrt3, h.r)))]

\* hexToPixel(hex, size): the centre of a flat-top hexagon.
hexToPixel(h, size) ==
    LET x == NMul(size, NMul(NDiv(N(3), N(2)), h.q))
        y == NMul(size, NAdd(NMul(NDiv(Sqrt3, N(2)), h.q), NMul(Sqrt3, h.r)))
    IN  [x |-> x, y |-> y]

\* Mutant of hexRound: the three roundings are returned as they are.
hexRound_NoFix(h) == [q |-> NRound(h.q), r |-> NRound(h.r), s |-> NRound(h.s)]

\* Mutant of hexRound: s is recomputed whatever the rounding errors are.
hexRound_AlwaysS(h) ==
    [q |-> NRound(h.q), r |-> NRound(h.r),
     s |-> NSub(NNeg(NRound(h.q)), NRound(h.r))]

\* Mutant of hexRound: the first test takes q on a tie (>= for >).
hexRound_TieToQ(h) ==
    LET q == NRound(h.q)
        r == NRound(h.r)
        s == NRound(h.s)
        q_diff == NAbs(NSub(q, h.q))
        r_diff == NAbs(NSub(r, h.r))
        s_diff == NAbs(NSub(s, h.s))
    IN  IF NGe(q_diff, r_diff) /\ NGe(q_diff, s_diff)
        THEN [q |-> NSub(NNeg(r), s), r |-> r, s |-> s]
        ELSE IF NGt(r_diff, s_diff)
        THEN [q |-> q, r |-> NSub(NNeg(q), s), s |-> s]
        ELSE [q |-> q, r |-> r, s |-> NSub(NNeg(q), r)]

\* hexRound(h): round each component, then recompute the one whose rounding
\* error is strictly the largest of the three (q), else r when its error is
\* strictly larger than that of s, else s.
hexRound(h) ==
    LET q == NRound(h.q)
        r == NRound(h.r)
        s == NRound(h.s)
        q_diff == NAbs(NSub(q, h.q))
        r_diff == NAbs(NSub(r, h.r))
        s_diff == NAbs(NSub(s, h.s))
    IN  IF NGt(q_diff, r_diff) /\ NGt(q_diff, s_diff)
        THEN [q |-> NSub(NNeg(r), s), r |-> r, s |-> s]
        ELSE IF NGt(r_diff, s_diff)
        THEN [q |-> q, r |-> NSub(NNeg(q), s), s |-> s]
        ELSE [q |-> q, r |-> r, s |-> NSub(NNeg(q), r)]

\* Mutant of pixelToHex: the sign of the x term of r is lost.
pixelToHex_LostSign(point, size) ==
    LET q == NDiv(NMul(NDiv(N(2), N(3)), point.x), size)
        r == NDiv(NAdd(NMul(NDiv(N(1), N(3)), point.x),
                       NMul(NDiv(Sqrt3, N(3)), point.y)), size)
    IN  hexRound(hex(q, r))

\* pixelToHex(point, size): the fractional axial coordinate of the point,
\* rounded by hexRound.
pixelToHex(point, size) ==
    LET q == NDiv(NMul(NDiv(N(2), N(3)), point.x), size)
        r == NDiv(NAdd(NMul(NDiv(N(-1), N(3)), point.x),
                       NMul(NDiv(Sqrt3, N(3)), point.y)), size)
    IN  hexRound(hex(q, r))

\* The six unit directions of hexNeighbors, in the order of the source.
directions ==
    << [q |-> N(1),  r |-> N(0),  s |-> N(-1)],
       [q |-> N(1),  r |-> N(-1), s |-> N(0)],
       [q |-> N(0),  r |-> N(-1), s |-> N(1)],
       [q |-> N(-1), r |-> N(0),  s |-> N(1)],
       [q |-> N(-1), r |-> N(1),  s |-> N(0)],
       [q |-> N(0),  r |-> N(1),  s |-> N(-1)] >>

\* Mutant of hexNeighbors: the second and third directions change places.
hexNeighbors_Reordered(h) ==
    [i \in 1..Len(directions) |->
        LET j == IF i = 2 THEN 3 ELSE IF i = 3 THEN 2 ELSE i
        IN  [q |-> NAdd(h.q, directions[j].q),
             r |-> NAdd(h.r, directions[j].r),
             s |-> NAdd(h.s, directions[j].s)]]

\* hexNeighbors(hex): directions.map(dir => hex + dir).
hexNeighbors(h) ==
    [i \in 1..Len(directions) |->
        [q |-> NAdd(h.q, directions[i].q),
         r |-> NAdd(h.r, directions[i].r),
         s |-> NAdd(h.s, directions[i].s)]]

\* Mutant of hexDistance: the three differences are added (the Manhattan
\* form without its division by two).
hexDistance_Sum(a, b) ==
    NAdd(NAdd(NAbs(NSub(a.q, b.q)), NAbs(NSub(a.r, b.r))),
         NAbs(NSub(a.s, b.s)))

\* Mutant of hexDistance: the s component is left out.
hexDistance_NoS(a, b) ==
    NMax(NAbs(NSub(a.q, b.q)), NAbs(NSub(a.r, b.r)))

\* Mutant of hexDistance: Math.abs is left out.
hexDistance_NoAbs(a, b) ==
    NMax(NMax(NSub(a.q, b.q), NSub(a.r, b.r)), NSub(a.s, b.s))

\* Mutant of hexDistance: the smallest difference instead of the largest.
hexDistance_Min(a, b) ==
    LET NMin(x, y) == IF NGe(x, y) THEN y ELSE x
    IN  NMin(NMin(NAbs(NSub(a.q, b.q)), NAbs(NSub(a.r, b.r))),
             NAbs(NSub(a.s, b.s)))

\* hexDistance(a, b): the largest absolute component difference.
hexDistance(a, b) ==
    NMax(NMax(NAbs(NSub(a.q, b.q)), NAbs(NSub(a.r, b.r))),
         NAbs(NSub(a.s, b.s)))

-----------------------------------------------------------------------------
(* State: the arguments of a call of a hexgrid.ts function, the function   *)
(* last called and what it returned.                                       *)

VARIABLES
    a,      \* a HexCoordinate argument
    b,      \* a second HexCoordinate argument
    c,      \* a third HexCoordinate argument
    frac,   \* a HexCoordinate argument with fractional components
    pt,     \* a Point argument
    size,   \* the hex size argument
    fn,     \* the function last called ("none" before any call)
    ret,    \* its return value
    camera,         \* HexGridGame: the camera state {x, y, zoom}
    selectedHex,    \* HexGridGame: {} for null, {h} for the coordinate h
    hexTiles,       \* HexGridGame: the coordinates of the loaded tiles
    gestureState,   \* HexGridGame: the touch gesture state
    animations,     \* HexGridGame: the focusOnHex animations in progress
    view,           \* HexGridGame: the canvas size, the map data, the resize
                    \* overlay and timer
    world,          \* ecs.ts: the hex tile and unit entities of the world
    hist            \* history (not program state): the initializeHexGrid
                    \* calls and clicks made, the successful moves of each
                    \* unit in this turn, whether it moved in the last one

\* The arguments of the hexgrid.ts calls.
gridArgs == <<a, b, c, frac, pt, size>>

\* The state of the HexGridGame component and of the ECS world.
gameVars ==
    <<camera, selectedHex, hexTiles, gestureState, animations, view>>
ecsVars == <<world, hist>>

vars == <<a, b, c, frac, pt, size, fn, ret, gameVars, ecsVars>>

\* gameConfig.map and the zoom focusOnHex aims at.
initialZoom == 10
minZoom == 10
maxZoom == 14
focusZoom == 12

\* The canvas of the smallest window.
SmallWindow == [width |-> 32, height |-> 32]

\* The view of the component as mounted in a window of the size of canvas:
\* the canvas has the size of the window, the map data is null ({}) and
\* being loaded, there is no resize overlay and no resize timer.  generated
\* and events are history: the canvas and camera of the last completed
\* generateVisibleTiles call ({} for none), and the number of user events.
viewMounted(canvas) ==
    [canvas |-> canvas,
     isResizing |-> FALSE,
     resizeTimeout |-> FALSE,
     allMapData |-> {},
     isLoadingMapData |-> TRUE,
     generated |-> {},
     events |-> 0]

\* The component as mounted: camera at the centre, nothing loaded or selected.
GameMounted ==
    /\ view = viewMounted(SmallWindow)
    /\ camera = [x |-> N(0), y |-> N(0), zoom |-> N(initialZoom)]
    /\ selectedHex = {}
    /\ hexTiles = {}
    /\ gestureState = [isPinching |-> FALSE, lastTouchDistance |-> N(0)]
    /\ animations = {}

\* new World<Entity>(): no entity, no call made.
WorldCreated ==
    /\ world = [tiles |-> [h \in {} |-> h], units |-> <<>>]
    /\ hist = [inits |-> 0, moves |-> <<>>, moved |-> <<>>, clicks |-> 0]

\* Bounds of the input sets.
MaxCoord == 1
MaxAxial == 2

Origin == [q |-> N(0), r |-> N(0), s |-> N(0)]

PointZero == [x |-> N(0), y |-> N(0)]

\* Every triple of integers of magnitude at most MaxCoord, whatever its sum.
Triples ==
    {[q |-> N(i), r |-> N(j), s |-> N(k)] :
        i \in -MaxCoord..MaxCoord, j \in -MaxCoord..MaxCoord,
        k \in -MaxCoord..MaxCoord}

\* The cube coordinates hex(q, r) with |q|, |r| <= MaxAxial.
Lattice == {hex(N(i), N(j)) : i \in -MaxAxial..MaxAxial, j \in -MaxAxial..MaxAxial}

Coords == Triples \cup Lattice

\* q + r + s = 0
Valid(h) == NAdd(NAdd(h.q, h.r), h.s) = N(0)

\* Bounds of the fractional inputs: denominators and numerators.
FracDen == 4
FracMax == 3

\* The fractions k/d, |k| <= FracMax, 1 <= d <= FracDen.
FracGrid == {Norm(k, 0, d) : k \in -FracMax..FracMax, d \in 1..FracDen}

\* How far off the plane q + r + s = 0 an input may lie, in halves.
MaxSlack == 1

\* The halves k/2, |k| <= MaxSlack.
SlackGrid == {Norm(k, 0, 2) : k \in -MaxSlack..MaxSlack}

\* Fractional cube coordinates: those on the plane q + r + s = 0, and
\* triples off it (hexRound is given whatever its caller computed).
FracCoords ==
    {[q |-> x, r |-> y, s |-> NAdd(NSub(NNeg(x), y), e)] :
        x \in FracGrid, y \in FracGrid, e \in SlackGrid}

\* Bounds of the hex sizes n/d.
MaxSizeNum == 2
MaxSizeDen == 2

\* gameConfig.hexGrid.size
ConfigHexSize == 2000

SmallSizes == {Norm(n, 0, d) : n \in 1..MaxSizeNum, d \in 1..MaxSizeDen}

Sizes == SmallSizes \cup {N(ConfigHexSize)}

\* Bounds of the points: coordinates k/PtDen, |k| <= PtMax, and for y also
\* the multiples k/PtDen * sqrt(3)/2, on which the edges between the
\* hexagons of one column lie.
PtDen == 2
PtMax == 6

PtGrid == {Norm(k, 0, PtDen) : k \in -PtMax..PtMax}

Points ==
    {[x |-> u, y |-> v] : u \in PtGrid, v \in PtGrid}
        \cup {[x |-> u, y |-> NMul(v, NDiv(Sqrt3, N(2)))] : u \in PtGrid, v \in PtGrid}

-----------------------------------------------------------------------------
(* Calls of the lattice functions on integer coordinates                   *)

InitLattice ==
    /\ a \in Coords
    /\ b \in Coords
    /\ c = Origin
    /\ frac = Origin
    /\ pt = PointZero
    /\ size = N(1)
    /\ fn = "none"
    /\ GameMounted
    /\ WorldCreated
    /\ ret = N(0)

\* ret = hex(a.q, a.r)
CallHex ==
    /\ fn' = "hex"
    /\ ret' = hex(a.q, a.r)
    /\ UNCHANGED <<gridArgs, gameVars, ecsVars>>

\* ret = hexNeighbors(a)
CallHexNeighbors ==
    /\ fn' = "hexNeighbors"
    /\ ret' = hexNeighbors(a)
    /\ UNCHANGED <<gridArgs, gameVars, ecsVars>>

\* ret = hexDistance(a, b)
CallHexDistance ==
    /\ fn' = "hexDistance"
    /\ ret' = hexDistance(a, b)
    /\ UNCHANGED <<gridArgs, gameVars, ecsVars>>

NextLattice == CallHex \/ CallHexNeighbors \/ CallHexDistance

SpecLattice == InitLattice /\ [][NextLattice]_vars

\* Bound of the coordinates of the three-point inputs.
MaxTri == 1

\* The integer triples of magnitude at most MaxTri on the plane
\* q + r + s = 0 or one unit off it.
NearPlane ==
    {[q |-> N(t[1]), r |-> N(t[2]), s |-> N(t[3])] :
        t \in {u \in (-MaxTri..MaxTri) \X (-MaxTri..MaxTri) \X (-MaxTri..MaxTri) :
                    u[1] + u[2] + u[3] \in -1..1}}

InitTriangle ==
    /\ a \in NearPlane
    /\ b \in NearPlane
    /\ c \in NearPlane
    /\ frac = Origin
    /\ pt = PointZero
    /\ size = N(1)
    /\ fn = "none"
    /\ GameMounted
    /\ WorldCreated
    /\ ret = N(0)

\* Calls of hexDistance(a, b) with a third coordinate at hand.
SpecTriangle == InitTriangle /\ [][CallHexDistance]_vars

-----------------------------------------------------------------------------
(* Shortest paths in the neighbour graph                                   *)

\* The coordinates one hexNeighbors step away from a coordinate of S.
Around(S) == {hexNeighbors(h)[i] : h \in S, i \in 1..6}

\* Breadth-first search: seen are the coordinates at most n steps from the
\* start, front those exactly n steps from it.  The result is the number of
\* steps at which goal is first met, or -1 when it is not met in cap steps.
RECURSIVE StepsTo(_, _, _, _, _)
StepsTo(seen, front, goal, n, cap) ==
    IF goal \in front THEN n
    ELSE IF n >= cap \/ front = {} THEN -1
    ELSE StepsTo(seen \cup Around(front), Around(front) \ seen, goal, n + 1, cap)

\* The least number of single-step neighbour moves leading from s to t.
\* Valid coordinates of the input sets are at most 4 * MaxAxial apart.
MinSteps(s, t) == StepsTo({s}, {s}, t, 0, 4 * MaxAxial + 1)

-----------------------------------------------------------------------------
(* Claims on the lattice functions (SpecLattice)                           *)

\* C1: hex(q, r) returns the q and r it was given and an s with
\* q + r + s = 0.
C1_HexSumZero ==
    fn = "hex" =>
        /\ ret.q = a.q
        /\ ret.r = a.r
        /\ NAdd(NAdd(ret.q, ret.r), ret.s) = N(0)

C1_Witness == fn = "hex" /\ a.q = N(2) /\ a.r = N(-1) /\ ret.s = N(-1)

\* The six directions as the specification lists them.
ListedDirections ==
    << <<1, 0, -1>>, <<1, -1, 0>>, <<0, -1, 1>>,
       <<-1, 0, 1>>, <<-1, 1, 0>>, <<0, 1, -1>> >>

\* C6: hexNeighbors(h) returns exactly six coordinates, the i-th being h
\* plus the i-th listed direction; they are pairwise distinct, and valid
\* (q + r + s = 0) when h is.
C6_SixNeighboursInOrder ==
    fn = "hexNeighbors" =>
        /\ Len(ret) = 6
        /\ \A i \in 1..6 :
              /\ ret[i].q = NAdd(a.q, N(ListedDirections[i][1]))
              /\ ret[i].r = NAdd(a.r, N(ListedDirections[i][2]))
              /\ ret[i].s = NAdd(a.s, N(ListedDirections[i][3]))
        /\ \A i, j \in 1..6 : i # j => ret[i] # ret[j]
        /\ Valid(a) => \A i \in 1..6 : Valid(ret[i])

C6_Witness ==
    /\ fn = "hexNeighbors"
    /\ a = Origin
    /\ ret[1] = [q |-> N(1), r |-> N(0), s |-> N(-1)]
    /\ ret[6] = [q |-> N(0), r |-> N(1), s |-> N(-1)]

\* C7: every neighbour of h is at hexDistance 1 from h.
C7_NeighbourDistanceOne ==
    fn = "hexNeighbors" =>
        \A i \in 1..Len(ret) : hexDistance(a, ret[i]) = N(1)

C7_Witness ==
    /\ fn = "hexNeighbors"
    /\ a = [q |-> N(2), r |-> N(-2), s |-> N(0)]
    /\ Len(ret) = 6

\* C8: for valid a and b, hexDistance(a, b) is the length of a shortest
\* path from a to b in the neighbour graph.
C8_DistanceIsShortestPath ==
    (fn = "hexDistance" /\ Valid(a) /\ Valid(b)) => ret = N(MinSteps(a, b))

C8_Witness ==
    /\ fn = "hexDistance"
    /\ a = Origin
    /\ b = [q |-> N(2), r |-> N(-1), s |-> N(-1)]
    /\ ret = N(2)
    /\ MinSteps(a, b) = 2

\* C9: hexDistance(a, b) = hexDistance(b, a).
C9_DistanceSymmetric ==
    fn = "hexDistance" => ret = hexDistance(b, a)

C9_Witness ==
    /\ fn = "hexDistance"
    /\ a = [q |-> N(1), r |-> N(-1), s |-> N(0)]
    /\ b = [q |-> N(-1), r |-> N(0), s |-> N(1)]
    /\ ret = N(2)

\* C10: hexDistance(a, b) is a non-negative integer, and it is 0 exactly
\* when a and b are equal component by component.
C10_DistanceZeroIffEqual ==
    fn = "hexDistance" =>
        /\ ret.b = 0 /\ ret.d = 1 /\ ret.a >= 0
        /\ (ret = N(0)) <=> (a.q = b.q /\ a.r = b.r /\ a.s = b.s)

C10_Witness ==
    /\ fn = "hexDistance"
    /\ a = [q |-> N(1), r |-> N(1), s |-> N(-2)]
    /\ b = a
    /\ ret = N(0)

-----------------------------------------------------------------------------
(* Calls of the conversion and rounding functions                          *)

InitConv ==
    /\ b = Origin
    /\ c = Origin
    /\ fn = "none"
    /\ GameMounted
    /\ WorldCreated
    /\ ret = N(0)
    /\ \/ /\ frac \in FracCoords
          /\ a = Origin /\ pt = PointZero /\ size = N(1)
       \/ /\ a \in Lattice /\ size \in Sizes
          /\ frac = Origin /\ pt = PointZero
       \/ /\ pt \in Points /\ size \in SmallSizes
          /\ a = Origin /\ frac = Origin

\* Mutant of CallHexRound: the rounding is done in place, on the argument.
CallHexRound_InPlace ==
    /\ fn' = "hexRound"
    /\ ret' = hexRound(frac)
    /\ frac' = hexRound(frac)
    /\ UNCHANGED <<a, b, c, pt, size, gameVars, ecsVars>>

\* ret = hexRound(frac)
CallHexRound ==
    /\ fn' = "hexRound"
    /\ ret' = hexRound(frac)
    /\ UNCHANGED <<gridArgs, gameVars, ecsVars>>

\* ret = hexToPixel(a, size); the point is kept as the next Point argument.
CallHexToPixel ==
    /\ fn' = "hexToPixel"
    /\ ret' = hexToPixel(a, size)
    /\ pt' = hexToPixel(a, size)
    /\ UNCHANGED <<a, b, c, frac, size, gameVars, ecsVars>>

\* ret = pixelToHex(pt, size)
CallPixelToHex ==
    /\ fn' = "pixelToHex"
    /\ ret' = pixelToHex(pt, size)
    /\ UNCHANGED <<gridArgs, gameVars, ecsVars>>

NextConv == CallHexRound \/ CallHexToPixel \/ CallPixelToHex

SpecConv == InitConv /\ [][NextConv]_vars

-----------------------------------------------------------------------------
(* Claims on the conversion and rounding functions (SpecConv)              *)

\* x is an integer.
IsInteger(x) == x.b = 0 /\ x.d = 1

\* The squared distance of two points of the plane.
DistSq(p1, p2) ==
    NAdd(NMul(NSub(p1.x, p2.x), NSub(p1.x, p2.x)),
         NMul(NSub(p1.y, p2.y), NSub(p1.y, p2.y)))

\* How far around a returned coordinate closer lattice points are looked
\* for.  A lattice point that is not nearest to a point of the plane has
\* one of its six neighbours strictly closer to it, so 1 would do.
NearWindow == 2

\* The valid integer coordinates within NearWindow axial steps of h.
Near(h) ==
    {hex(NAdd(h.q, N(i)), NAdd(h.r, N(j))) :
        i \in -NearWindow..NearWindow, j \in -NearWindow..NearWindow}

\* C2: pixelToHex(hexToPixel(hex(q, r), size), size) = hex(q, r),
\* component by component, for integers q, r and size > 0.
C2_RoundTrip ==
    (fn = "pixelToHex" /\ pt = hexToPixel(hex(a.q, a.r), size)) =>
        /\ ret.q = a.q
        /\ ret.r = a.r
        /\ ret.s = hex(a.q, a.r).s

C2_Witness ==
    /\ fn = "pixelToHex"
    /\ a = [q |-> N(-2), r |-> N(1), s |-> N(1)]
    /\ size = N(ConfigHexSize)
    /\ pt = [x |-> N(-6000), y |-> N(0)]
    /\ ret = a

\* C3: hexRound returns integers q, r, s with q + r + s = 0, two of which
\* (those not recomputed) are the roundings of the input components.
C3_RoundRestoresInvariant ==
    fn = "hexRound" =>
        /\ IsInteger(ret.q) /\ IsInteger(ret.r) /\ IsInteger(ret.s)
        /\ NAdd(NAdd(ret.q, ret.r), ret.s) = N(0)
        /\ \/ ret.q = NRound(frac.q) /\ ret.r = NRound(frac.r)
           \/ ret.q = NRound(frac.q) /\ ret.s = NRound(frac.s)
           \/ ret.r = NRound(frac.r) /\ ret.s = NRound(frac.s)

\* The three roundings of (1/2, -1/4, -1/4) are 1, 0, 0: q is recomputed.
C3_Witness ==
    /\ fn = "hexRound"
    /\ frac = [q |-> Norm(1, 0, 2), r |-> Norm(-1, 0, 4), s |-> Norm(-1, 0, 4)]
    /\ ret = Origin

\* C4: no valid integer coordinate is strictly closer (between the centres
\* in the plane) to a fractional coordinate h, q + r + s = 0, than
\* hexRound(h); and none has its centre strictly closer to a point p than
\* pixelToHex(p, size).
C4_RoundIsNearest ==
    /\ (fn = "hexRound" /\ Valid(frac)) =>
          \A cand \in Near(ret) :
              ~ NGt(DistSq(hexToPixel(ret, N(1)), hexToPixel(frac, N(1))),
                    DistSq(hexToPixel(cand, N(1)), hexToPixel(frac, N(1))))
    /\ fn = "pixelToHex" =>
          \A cand \in Near(ret) :
              ~ NGt(DistSq(hexToPixel(ret, size), pt),
                    DistSq(hexToPixel(cand, size), pt))

\* A point off every lattice line, which pixelToHex maps to (1, 0, -1).
C4_Witness ==
    /\ fn = "pixelToHex"
    /\ size = N(1)
    /\ pt = [x |-> N(1), y |-> Norm(3, 0, 2)]
    /\ ret = [q |-> N(1), r |-> N(0), s |-> N(-1)]

\* The tie of the specification: {q: 0.5, r: 0.5, s: -1.0}.
TieInput == [q |-> Norm(1, 0, 2), r |-> Norm(1, 0, 2), s |-> N(-1)]

\* C5, as claimed: hexRound of the tie leaves s at -1, corrects q and
\* returns {q: 0, r: 1, s: -1}.
C5_TieCorrectsQ ==
    (fn = "hexRound" /\ frac = TieInput) =>
        ret = [q |-> N(0), r |-> N(1), s |-> N(-1)]

\* C5, amended: hexRound of the tie leaves s at -1, keeps q at its rounding
\* 1 (its error does not strictly exceed that of r), corrects r and returns
\* {q: 1, r: 0, s: -1}.
C5_TieCorrectsR ==
    (fn = "hexRound" /\ frac = TieInput) =>
        /\ ret = [q |-> N(1), r |-> N(0), s |-> N(-1)]
        /\ ret.s = NRound(frac.s)
        /\ ret.q = NRound(frac.q)
        /\ ret.r # NRound(frac.r)

C5_Witness == fn = "hexRound" /\ frac = TieInput /\ ret.q = N(1)

-----------------------------------------------------------------------------
(* Further claims on hexDistance and hexToPixel                            *)

\* C11: the triangle inequality, hexDistance(a, c) <= hexDistance(a, b) +
\* hexDistance(b, c); ret is hexDistance(a, b).
C11_TriangleInequality ==
    fn = "hexDistance" =>
        NGe(NAdd(ret, hexDistance(b, c)), hexDistance(a, c))

\* Equality is met with b between a and c.
C11_Witness ==
    /\ fn = "hexDistance"
    /\ a = [q |-> N(-1), r |-> N(0), s |-> N(1)]
    /\ b = Origin
    /\ c = [q |-> N(1), r |-> N(0), s |-> N(-1)]
    /\ ret = N(1)
    /\ hexDistance(a, c) = N(2)

\* The call hexToPixel({q: 1, r: 0, s: -1}, 2000) has returned.
C12_Call ==
    /\ fn = "hexToPixel"
    /\ a = [q |-> N(1), r |-> N(0), s |-> N(-1)]
    /\ size = N(ConfigHexSize)

\* C12, as stated: hexToPixel({q: 1, r: 0, s: -1}, 2000) has x = 3000 and
\* y = 2000 * sqrt(3), that is y squared = 3 * 2000^2.
C12_YIsSizeSqrt3 ==
    C12_Call =>
        /\ ret.x = N(3000)
        /\ ret.y = NMul(N(ConfigHexSize), Sqrt3)
        /\ NMul(ret.y, ret.y) = N(3 * ConfigHexSize * ConfigHexSize)

\* C12, amended: hexToPixel({q: 1, r: 0, s: -1}, 2000) has x = 3000 and
\* y = 1732.05..., which is 2000 * sqrt(3) / 2 = 1000 * sqrt(3), that is
\* y squared = 3 * 1000^2.
C12_YIsHalfSizeSqrt3 ==
    C12_Call =>
        /\ ret.x = N(3000)
        /\ ret.y = NDiv(NMul(N(ConfigHexSize), Sqrt3), N(2))
        /\ NMul(ret.y, ret.y) = N(3 * 1000 * 1000)
        /\ NGe(NMul(N(20), ret.y), N(34641))
        /\ NGt(N(34642), NMul(N(20), ret.y))

C12_Witness ==
    /\ C12_Call
    /\ ret = [x |-> N(3000), y |-> NMul(N(1000), Sqrt3)]

\* Calls of all the hexgrid.ts functions, in any order.
NextGrid == NextLattice \/ NextConv

SpecGrid == InitConv /\ [][NextGrid]_vars

-----------------------------------------------------------------------------
(* HexGridGame.tsx: clicks, zoom and the focus animation                   *)

\* const duration = 1000 of focusOnHex, in milliseconds.
duration == 1000

\* Bounds of the click inputs: offsets from the camera in fractions
\* i / ClickDen of the hex size, |i| <= MaxClick, and the clicks of a run.
ClickDen == 3
MaxClick == 3
MaxClicks == 1

\* The hexCoord of handleCanvasInteraction for a world point: q, r and
\* -q - r, each rounded on its own.
hexCoord(worldX, worldY) ==
    LET hexSize == N(ConfigHexSize)
        q == NDiv(NMul(NDiv(N(2), N(3)), worldX), hexSize)
        r == NDiv(NAdd(NMul(NDiv(N(-1), N(3)), worldX),
                       NMul(NDiv(Sqrt3, N(3)), worldY)), hexSize)
    IN  [q |-> NRound(q), r |-> NRound(r), s |-> NRound(NSub(NNeg(q), r))]

\* focusOnHex(hexCoord): the animation it starts. Its first frame runs at
\* once with elapsed = 0, which sets the camera to startCamera.
focusOnHex(h) ==
    LET hexSize == N(ConfigHexSize)
        targetX == NMul(hexSize, NMul(NDiv(N(3), N(2)), h.q))
        targetY == NMul(hexSize, NAdd(NMul(NDiv(Sqrt3, N(2)), h.q),
                                      NMul(Sqrt3, h.r)))
        targetZoom == NMax(camera.zoom, N(focusZoom))
    IN  [startCamera |-> camera,
         target |-> [x |-> targetX, y |-> targetY, zoom |-> targetZoom],
         elapsed |-> 0]

\* Mutant of handleCanvasInteraction: the hexExists test is lost.
handleCanvasInteraction_NoExistsTest(dx, dy) ==
    LET worldX == NAdd(camera.x, dx)
        worldY == NSub(camera.y, dy)
        h == hexCoord(worldX, worldY)
    IN  /\ hist.clicks < MaxClicks
        /\ hist' = [hist EXCEPT !.clicks = @ + 1]
        /\ fn' = "handleCanvasInteraction"
        /\ pt' = [x |-> worldX, y |-> worldY]
        /\ ret' = {h}
        /\ selectedHex' = {h}
        /\ animations' = animations \cup {focusOnHex(h)}
        /\ UNCHANGED <<a, b, c, frac, size, camera, hexTiles, view, world>>

\* handleCanvasInteraction for a click at the offset (dx, dy) from the
\* centre of the canvas, in metres: dx = (x - width / 2) / scale and
\* dy = (y - height / 2) / scale.
handleCanvasInteraction(dx, dy) ==
    LET worldX == NAdd(camera.x, dx)
        worldY == NSub(camera.y, dy)
        h == hexCoord(worldX, worldY)
        hexExists == h \in hexTiles
    IN  /\ hist.clicks < MaxClicks
        /\ hist' = [hist EXCEPT !.clicks = @ + 1]
        /\ fn' = "handleCanvasInteraction"
        /\ pt' = [x |-> worldX, y |-> worldY]
        /\ IF hexExists
           THEN /\ ret' = {h}
                /\ selectedHex' = {h}
                /\ animations' = animations \cup {focusOnHex(h)}
           ELSE /\ ret' = {}
                /\ UNCHANGED <<selectedHex, animations>>
        /\ UNCHANGED <<a, b, c, frac, size, camera, hexTiles, view, world>>

\* The offsets of the clicks.
ClickOffsets ==
    {NDiv(N(ConfigHexSize * i), N(ClickDen)) : i \in -MaxClick..MaxClick}

\* A click or tap anywhere on the canvas.
Click ==
    \E dx \in ClickOffsets, dy \in ClickOffsets, irr \in BOOLEAN :
        /\ handleCanvasInteraction(dx, IF irr THEN NMul(Sqrt3, dy) ELSE dy)
        /\ UNCHANGED gestureState

\* The times of the animation frames, in milliseconds: half way, at the
\* end and past the end of the animation.
FrameTimes == {duration \div 2, duration, duration + duration \div 2}

\* animate(): one frame of the animation an, elapsed milliseconds after
\* its start.
animate(an, elapsed) ==
    LET progress == NDiv(N(IF elapsed < duration THEN elapsed ELSE duration),
                         N(duration))
        rest == NSub(N(1), progress)
        eased == NSub(N(1), NMul(rest, NMul(rest, rest)))
        from == an.startCamera
        to == an.target
    IN  /\ camera' =
               [x |-> NAdd(from.x, NMul(NSub(to.x, from.x), eased)),
                y |-> NAdd(from.y, NMul(NSub(to.y, from.y), eased)),
                zoom |-> NAdd(from.zoom, NMul(NSub(to.zoom, from.zoom), eased))]
        /\ animations' =
               IF NGt(N(1), progress)
               THEN (animations \ {an}) \cup {[an EXCEPT !.elapsed = elapsed]}
               ELSE animations \ {an}

\* requestAnimationFrame fires for one of the animations in progress.
AnimationFrame ==
    \E an \in animations, elapsed \in FrameTimes :
        /\ elapsed > an.elapsed
        /\ animate(an, elapsed)
        /\ fn' = "animate"
        /\ UNCHANGED <<gridArgs, ret, selectedHex, hexTiles, view, gestureState,
                       ecsVars>>

\* Bound of the loaded tiles: those within MaxLoad steps of the origin.
MaxLoad == 1

\* The tiles around the origin, as generateVisibleTiles loads them.
Disc ==
    {h \in {hex(N(i), N(j)) : i \in -MaxLoad..MaxLoad, j \in -MaxLoad..MaxLoad} :
        NGe(N(MaxLoad), hexDistance(Origin, h))}

\* The loaded tiles: all of Disc, or Disc without a tile the map data lacks.
LoadedSets == {Disc, Disc \ {Origin}, Disc \ {hex(N(0), N(1))}}

\* The component with its tiles loaded and no call of the other modules.
InitGame ==
    /\ a = Origin /\ b = Origin /\ c = Origin /\ frac = Origin
    /\ pt = PointZero
    /\ size = N(ConfigHexSize)
    /\ fn = "none"
    /\ ret = {}
    /\ camera = [x |-> N(0), y |-> N(0), zoom |-> N(initialZoom)]
    /\ selectedHex = {}
    /\ hexTiles \in LoadedSets
    /\ view = [viewMounted(SmallWindow) EXCEPT !.allMapData = {hexTiles},
                                              !.isLoadingMapData = FALSE]
    /\ gestureState = [isPinching |-> FALSE, lastTouchDistance |-> N(0)]
    /\ animations = {}
    /\ WorldCreated

NextClick == Click \/ AnimationFrame

\* Clicks on the canvas and the frames of the animations they start.
SpecClick == InitGame /\ [][NextClick]_vars

\* C13: a click whose world point has a loaded tile as its nearest hex
\* centre (the hex pixelToHex returns) selects exactly that tile, and no
\* click selects any other tile.
C13_ClickSelectsNearest ==
    fn = "handleCanvasInteraction" =>
        LET nearest == pixelToHex(pt, N(ConfigHexSize))
        IN  /\ nearest \in hexTiles => ret = {nearest} /\ selectedHex = {nearest}
            /\ ret \subseteq {nearest}

\* The second half of C13 alone: a click selects the nearest tile or nothing.
ClickSelectsNoOther ==
    fn = "handleCanvasInteraction" => ret \subseteq {pixelToHex(pt, N(ConfigHexSize))}

-----------------------------------------------------------------------------
(* app/lib/ecs.ts: GameSystems                                             *)
(*                                                                         *)
(* world.tiles maps the coordinate of each hex tile entity to its          *)
(* components, world.units lists the unit entities in the order of their   *)
(* creation. Each operation is an operator from the world (and its         *)
(* arguments) to the new world and the value returned.                     *)

\* Bounds: the tiles of a grid, the units and the initializeHexGrid calls
\* of a run.
MaxTiles == 2
MaxUnits == 2
MaxInits == 2

terrainTypes == {"plains", "forest", "water", "mountain"}

\* initializeHexGrid(tiles), with terrainOf the outcome of the Math.random
\* draws: every hex tile entity is removed, and one is added per tile of
\* tiles, a map from the coordinates of the tiles to their centres.
initializeHexGrid(w, tiles, terrainOf) ==
    [world |->
        [tiles |->
            [h \in DOMAIN tiles |->
                [position |-> [lng |-> tiles[h].x, lat |-> tiles[h].y],
                 terrain |-> terrainOf[h],
                 occupied |-> FALSE,
                 opacity |-> NDiv(N(6), N(10)),
                 selected |-> FALSE]],
         units |-> w.units],
     ret |-> "undefined"]

\* Mutant of selectHexTile: the tiles that are not the target are left as
\* they were.
selectHexTile_NoDeselect(w, coordinate) ==
    [world |-> [w EXCEPT !.tiles =
        [h \in DOMAIN w.tiles |->
            IF h = coordinate
            THEN [w.tiles[h] EXCEPT !.selected = TRUE,
                                    !.opacity = NDiv(N(9), N(10))]
            ELSE w.tiles[h]]],
     ret |-> "undefined"]

\* selectHexTile(coordinate): of the selectable entities, those with a
\* hexTile component are selected (opacity 0.9) when q, r and s of their
\* coordinate equal those of the argument and deselected (opacity 0.6)
\* otherwise; the entities without hexTile component are skipped.
selectHexTile(w, coordinate) ==
    [world |-> [w EXCEPT !.tiles =
        [h \in DOMAIN w.tiles |->
            LET isTarget == /\ h.q = coordinate.q
                            /\ h.r = coordinate.r
                            /\ h.s = coordinate.s
            IN  [w.tiles[h] EXCEPT
                    !.selected = isTarget,
                    !.opacity = IF isTarget THEN NDiv(N(9), N(10))
                                ELSE NDiv(N(6), N(10))]]],
     ret |-> "undefined"]

\* spawnUnit(coordinate, unitType): null (0) when there is no tile at the
\* coordinate or it is occupied; otherwise the tile is marked occupied and
\* the new unit (its index) is returned.
spawnUnit(w, coordinate, unitType) ==
    IF coordinate \notin DOMAIN w.tiles \/ w.tiles[coordinate].occupied
    THEN [world |-> w, ret |-> 0]
    ELSE [world |->
             [tiles |-> [w.tiles EXCEPT ![coordinate].occupied = TRUE],
              units |-> Append(w.units,
                  [position |-> w.tiles[coordinate].position,
                   hexPosition |-> coordinate,
                   type |-> unitType,
                   health |-> 100,
                   maxHealth |-> 100,
                   movementRange |-> 2,
                   canMove |-> TRUE,
                   selected |-> FALSE])],
          ret |-> Len(w.units) + 1]

\* Mutant of moveUnit: the canMove test is lost.
moveUnit_NoCanMoveTest(w, u, newCoordinate) ==
    IF \/ u \notin DOMAIN w.units
       \/ newCoordinate \notin DOMAIN w.tiles
       \/ w.tiles[newCoordinate].occupied
    THEN [world |-> w, ret |-> FALSE]
    ELSE [world |->
             [tiles |-> [h \in DOMAIN w.tiles |->
                 [w.tiles[h] EXCEPT !.occupied =
                     IF h = newCoordinate THEN TRUE
                     ELSE IF h = w.units[u].hexPosition THEN FALSE ELSE @]],
              units |-> [w.units EXCEPT
                  ![u].position = w.tiles[newCoordinate].position,
                  ![u].hexPosition = newCoordinate,
                  ![u].canMove = FALSE]],
          ret |-> TRUE]

\* Mutant of moveUnit: the old hex is not freed.
moveUnit_OldHexKept(w, u, newCoordinate) ==
    IF \/ u \notin DOMAIN w.units
       \/ ~w.units[u].canMove
       \/ newCoordinate \notin DOMAIN w.tiles
       \/ w.tiles[newCoordinate].occupied
    THEN [world |-> w, ret |-> FALSE]
    ELSE [world |->
             [tiles |-> [w.tiles EXCEPT ![newCoordinate].occupied = TRUE],
              units |-> [w.units EXCEPT
                  ![u].position = w.tiles[newCoordinate].position,
                  ![u].hexPosition = newCoordinate,
                  ![u].canMove = FALSE]],
          ret |-> TRUE]

\* Mutant of moveUnit: canMove is cleared before the target is tested.
moveUnit_CanMoveClearedEarly(w, u, newCoordinate) ==
    IF u \notin DOMAIN w.units \/ ~w.units[u].canMove
    THEN [world |-> w, ret |-> FALSE]
    ELSE IF \/ newCoordinate \notin DOMAIN w.tiles
            \/ w.tiles[newCoordinate].occupied
    THEN [world |-> [w EXCEPT !.units[u].canMove = FALSE], ret |-> FALSE]
    ELSE [world |->
             [tiles |-> [h \in DOMAIN w.tiles |->
                 [w.tiles[h] EXCEPT !.occupied =
                     IF h = newCoordinate THEN TRUE
                     ELSE IF h = w.units[u].hexPosition THEN FALSE ELSE @]],
              units |-> [w.units EXCEPT
                  ![u].position = w.tiles[newCoordinate].position,
                  ![u].hexPosition = newCoordinate,
                  ![u].canMove = FALSE]],
          ret |-> TRUE]

\* Mutant of moveUnit: the unit keeps its position (lng, lat).
moveUnit_PositionKept(w, u, newCoordinate) ==
    IF \/ u \notin DOMAIN w.units
       \/ ~w.units[u].canMove
       \/ newCoordinate \notin DOMAIN w.tiles
       \/ w.tiles[newCoordinate].occupied
    THEN [world |-> w, ret |-> FALSE]
    ELSE [world |->
             [tiles |-> [h \in DOMAIN w.tiles |->
                 [w.tiles[h] EXCEPT !.occupied =
                     IF h = newCoordinate THEN TRUE
                     ELSE IF h = w.units[u].hexPosition THEN FALSE ELSE @]],
              units |-> [w.units EXCEPT
                  ![u].hexPosition = newCoordinate,
                  ![u].canMove = FALSE]],
          ret |-> TRUE]

\* moveUnit(unitEntity, newCoordinate) for the unit u of world.units, or
\* for an entity without unit component (u = 0): false when the entity is
\* no unit, the unit cannot move, there is no tile at the coordinate or it is
\* occupied; otherwise the old hex (if it still exists) is freed, the unit
\* takes the position of the target, the target is marked occupied and
\* canMove becomes false.
moveUnit(w, u, newCoordinate) ==
    IF \/ u \notin DOMAIN w.units
       \/ ~w.units[u].canMove
       \/ newCoordinate \notin DOMAIN w.tiles
       \/ w.tiles[newCoordinate].occupied
    THEN [world |-> w, ret |-> FALSE]
    ELSE [world |->
             [tiles |-> [h \in DOMAIN w.tiles |->
                 [w.tiles[h] EXCEPT !.occupied =
                     IF h = newCoordinate THEN TRUE
                     ELSE IF h = w.units[u].hexPosition THEN FALSE ELSE @]],
              units |-> [w.units EXCEPT
                  ![u].position = w.tiles[newCoordinate].position,
                  ![u].hexPosition = newCoordinate,
                  ![u].canMove = FALSE]],
          ret |-> TRUE]

\* Mutant of resetMovement: the first unit is skipped.
resetMovement_SkipFirst(w) ==
    [world |-> [w EXCEPT !.units =
        [i \in DOMAIN w.units |->
            [w.units[i] EXCEPT !.canMove = IF i = 1 THEN @ ELSE TRUE]]],
     ret |-> "undefined"]

\* resetMovement(): canMove = true for every unit.
resetMovement(w) ==
    [world |-> [w EXCEPT !.units =
        [i \in DOMAIN w.units |-> [w.units[i] EXCEPT !.canMove = TRUE]]],
     ret |-> "undefined"]

\* The unit type of the calls: the default of spawnUnit.
unitTypes == {"warrior"}

\* The coordinates of a row of n tiles, and those the calls are made with.
Row(n) == {hex(N(i), N(0)) : i \in 0..(n - 1)}

\* The tiles of the rows as generateHexGrid builds them: centres at
\* hexToPixel.
RowTiles ==
    [n \in 1..MaxTiles |-> [h \in Row(n) |-> hexToPixel(h, N(ConfigHexSize))]]

\* Bound: the distance between the two tiles of a sparse grid.
FarStep == 3

\* A tile list with two tiles FarStep apart, with centres at hexToPixel.
SparseTiles ==
    [h \in {Origin, hex(N(FarStep), N(0))} |->
        hexToPixel(h, N(ConfigHexSize))]

\* The coordinates the calls are made with.
EcsCoords == Row(MaxTiles) \cup DOMAIN SparseTiles

\* A fresh world and no call of the other modules.
InitEcs ==
    /\ a = Origin /\ b = Origin /\ c = Origin /\ frac = Origin
    /\ pt = PointZero
    /\ size = N(ConfigHexSize)
    /\ fn = "none"
    /\ ret = "undefined"
    /\ GameMounted
    /\ WorldCreated

\* GameSystems.initializeHexGrid(tiles)
InitializeHexGrid ==
    \E n \in 1..MaxTiles :
        LET tiles == RowTiles[n]
        IN  \E terrainOf \in [DOMAIN tiles -> terrainTypes] :
            LET res == initializeHexGrid(world, tiles, terrainOf)
            IN  /\ hist.inits < MaxInits
                /\ world' = res.world
                /\ ret' = res.ret
                /\ fn' = "initializeHexGrid"
                /\ hist' = [hist EXCEPT !.inits = @ + 1]
                /\ UNCHANGED <<gridArgs, gameVars>>

\* GameSystems.spawnUnit(coordinate, unitType)
SpawnUnit ==
    \E coordinate \in EcsCoords, unitType \in unitTypes :
        LET res == spawnUnit(world, coordinate, unitType)
        IN  /\ Len(world.units) < MaxUnits
            /\ world' = res.world
            /\ ret' = res.ret
            /\ fn' = "spawnUnit"
            /\ hist' = IF res.ret = 0 THEN hist
                       ELSE [hist EXCEPT !.moves = Append(@, 0),
                                         !.moved = Append(@, FALSE)]
            /\ UNCHANGED <<gridArgs, gameVars>>

\* GameSystems.moveUnit(unitEntity, newCoordinate)
MoveUnit ==
    \E u \in 0..Len(world.units), newCoordinate \in EcsCoords :
        LET res == moveUnit(world, u, newCoordinate)
        IN  /\ world' = res.world
            /\ ret' = res.ret
            /\ fn' = "moveUnit"
            /\ hist' = IF res.ret THEN [hist EXCEPT !.moves[u] = @ + 1]
                       ELSE hist
            /\ UNCHANGED <<gridArgs, gameVars>>

\* GameSystems.resetMovement()
ResetMovement ==
    LET res == resetMovement(world)
    IN  /\ world' = res.world
        /\ ret' = res.ret
        /\ fn' = "resetMovement"
        /\ hist' = [hist EXCEPT !.moves = [i \in DOMAIN @ |-> 0],
                             !.moved = [i \in DOMAIN @ |-> hist.moves[i] > 0]]
        /\ UNCHANGED <<gridArgs, gameVars>>

NextEcs == InitializeHexGrid \/ SpawnUnit \/ MoveUnit \/ ResetMovement

\* Any sequence of GameSystems calls.
SpecEcs == InitEcs /\ [][NextEcs]_vars

\* The first initializeHexGrid call of a run.
FirstInitializeHexGrid == hist.inits = 0 /\ InitializeHexGrid

NextOneGrid ==
    FirstInitializeHexGrid \/ SpawnUnit \/ MoveUnit \/ ResetMovement

\* The sequences of GameSystems calls with one initializeHexGrid call.
SpecOneGrid == InitEcs /\ [][NextOneGrid]_vars

\* GameSystems.initializeHexGrid(tiles) with a sparse tile list
InitializeSparseGrid ==
    \E terrainOf \in [DOMAIN SparseTiles -> terrainTypes] :
        LET res == initializeHexGrid(world, SparseTiles, terrainOf)
        IN  /\ hist.inits < MaxInits
            /\ world' = res.world
            /\ ret' = res.ret
            /\ fn' = "initializeHexGrid"
            /\ hist' = [hist EXCEPT !.inits = @ + 1]
            /\ UNCHANGED <<gridArgs, gameVars>>

NextSparse ==
    InitializeSparseGrid \/ SpawnUnit \/ MoveUnit \/ ResetMovement

\* Any sequence of GameSystems calls on sparse grids.
SpecSparse == InitEcs /\ [][NextSparse]_vars

\* The coordinates selectHexTile is called with: those of the other calls
\* and one off the plane q + r + s = 0.
SelectCoords == EcsCoords \cup {[q |-> N(0), r |-> N(0), s |-> N(1)]}

\* GameSystems.selectHexTile(coordinate); a holds the argument.
SelectHexTile ==
    \E coordinate \in SelectCoords :
        LET res == selectHexTile(world, coordinate)
        IN  /\ world' = res.world
            /\ ret' = res.ret
            /\ fn' = "selectHexTile"
            /\ a' = coordinate
            /\ UNCHANGED <<b, c, frac, pt, size, gameVars, hist>>

NextSelect ==
    FirstInitializeHexGrid \/ SpawnUnit \/ MoveUnit \/ SelectHexTile

\* The sequences of initializeHexGrid (once), spawnUnit, moveUnit and
\* selectHexTile calls.
SpecSelect == InitEcs /\ [][NextSelect]_vars

\* There is a unit at the coordinate h.
UnitAt(h) == \E i \in DOMAIN world.units : world.units[i].hexPosition = h

\* The existing tiles that are not occupied.
FreeTiles(w) == {h \in DOMAIN w.tiles : ~w.tiles[h].occupied}

\* C14: after any sequence of initializeHexGrid, spawnUnit, moveUnit and
\* resetMovement calls, no two units have the same hexPosition coordinate.
C14_OneUnitPerHex ==
    \A i, j \in DOMAIN world.units :
        i # j => world.units[i].hexPosition # world.units[j].hexPosition

\* C15: water is impassable: no unit's hexPosition is the coordinate of a
\* hex tile whose terrain is water.
C15_NoUnitOnWater ==
    \A i \in DOMAIN world.units :
        world.units[i].hexPosition \in DOMAIN world.tiles =>
            world.tiles[world.units[i].hexPosition].terrain # "water"

\* C16: right after resetMovement every unit has canMove = true and can
\* complete a moveUnit to any free existing tile, and resetMovement has
\* changed no other field of any entity.
C16_ResetRestoresMovement ==
    [][fn' = "resetMovement" =>
          /\ \A i \in DOMAIN world'.units :
                /\ world'.units[i].canMove
                /\ \A h \in FreeTiles(world') : moveUnit(world', i, h).ret
          /\ world'.tiles = world.tiles
          /\ DOMAIN world'.units = DOMAIN world.units
          /\ \A i \in DOMAIN world.units :
                world'.units[i] = [world.units[i] EXCEPT !.canMove = TRUE]
          /\ gameVars' = gameVars]_vars

\* resetMovement has returned, the first unit moved in the turn it ended,
\* and there is a free tile for it to move to.
C16_Witness ==
    /\ fn = "resetMovement"
    /\ Len(world.units) >= 1
    /\ hist.moved[1]
    /\ world.units[1].canMove
    /\ FreeTiles(world) # {}

\* C19: after one initializeHexGrid call followed by any sequence of
\* spawnUnit, moveUnit and resetMovement calls, a tile is occupied if and
\* only if some unit's hexPosition is its coordinate.
C19_OccupancyInSync ==
    hist.inits = 1 =>
        \A h \in DOMAIN world.tiles : world.tiles[h].occupied <=> UnitAt(h)

\* A unit has moved: the hex it stands on is occupied, the one it left is
\* free.
C19_Witness ==
    /\ hist.inits = 1
    /\ fn = "moveUnit"
    /\ ret = TRUE
    /\ FreeTiles(world) # {}
    /\ \E h \in DOMAIN world.tiles : world.tiles[h].occupied /\ UnitAt(h)

\* C20: between two resetMovement calls (or its spawn and the next
\* resetMovement) at most one moveUnit on a unit returns true, and canMove
\* is false from that move on, so that every later moveUnit is rejected.
C20_OneMovePerTurn ==
    \A i \in DOMAIN world.units :
        /\ hist.moves[i] <= 1
        /\ hist.moves[i] = 1 =>
              /\ ~world.units[i].canMove
              /\ \A h \in EcsCoords : ~moveUnit(world, i, h).ret

\* A unit has moved in this turn, and a moveUnit has been rejected since,
\* with a free tile at hand.
C20_Witness ==
    /\ fn = "moveUnit"
    /\ ret = FALSE
    /\ Len(world.units) = 1
    /\ hist.moves[1] = 1
    /\ FreeTiles(world) # {}

\* C21: a rejected move changes nothing: when moveUnit returns false, every
\* unit's position, hexPosition and canMove and every tile's occupied flag
\* (the whole world) are as before the call.
C21_RejectedMoveChangesNothing ==
    [][fn' = "moveUnit" /\ ret' = FALSE =>
          /\ world' = world
          /\ gameVars' = gameVars]_vars

\* A moveUnit has been rejected although the first unit can move: the
\* target was its own hex or another occupied hex, or there is no tile at
\* the target.
C21_Witness ==
    /\ fn = "moveUnit"
    /\ ret = FALSE
    /\ Len(world.units) >= 1
    /\ world.units[1].canMove
    /\ world.units[1].hexPosition \in DOMAIN world.tiles
    /\ world.tiles[world.units[1].hexPosition].occupied

\* C22: movement range is respected: whenever moveUnit returns true, the
\* hexDistance between the unit's previous hexPosition and the new
\* coordinate is at most the unit's movementRange.
C22_MoveWithinRange ==
    [][fn' = "moveUnit" /\ ret' = TRUE =>
          \A i \in DOMAIN world.units :
              NGe(N(world.units[i].movementRange),
                  hexDistance(world.units[i].hexPosition,
                              world'.units[i].hexPosition))]_vars

\* C23: unit position follows its hex: after one initializeHexGrid call and
\* any sequence of spawnUnit and moveUnit calls, every unit's position
\* (lng, lat) is the position of the hex tile entity at the unit's
\* hexPosition coordinate.
C23_PositionFollowsHex ==
    hist.inits = 1 =>
        \A i \in DOMAIN world.units :
            /\ world.units[i].hexPosition \in DOMAIN world.tiles
            /\ world.units[i].position =
                   world.tiles[world.units[i].hexPosition].position

\* The first unit has moved to the tile next to the origin tile.
C23_Witness ==
    /\ hist.inits = 1
    /\ fn = "moveUnit"
    /\ ret = TRUE
    /\ Len(world.units) >= 1
    /\ hist.moves[1] = 1
    /\ world.units[1].hexPosition = hex(N(1), N(0))
    /\ world.units[1].position # [lng |-> N(0), lat |-> N(0)]

\* The hex tiles of w that are selected.
SelectedTiles(w) == {h \in DOMAIN w.tiles : w.tiles[h].selected}

\* C24: single selection: after any selectHexTile(c) call a hex tile is
\* selected if and only if its coordinate equals c, so at most one hex tile
\* is selected; each hex tile's opacity is 0.9 exactly when it is selected
\* and 0.6 otherwise; the unit entities are left unchanged.
C24_SingleSelection ==
    [][fn' = "selectHexTile" =>
          /\ SelectedTiles(world') = DOMAIN world'.tiles \cap {a'}
          /\ Cardinality(SelectedTiles(world')) <= 1
          /\ \A h \in DOMAIN world'.tiles :
                world'.tiles[h].opacity =
                    IF world'.tiles[h].selected THEN NDiv(N(9), N(10))
                    ELSE NDiv(N(6), N(10))
          /\ world'.units = world.units]_vars

\* selectHexTile has moved the selection to the second of two tiles, with a
\* unit in the world.
C24_Witness ==
    /\ fn = "selectHexTile"
    /\ a = hex(N(1), N(0))
    /\ Cardinality(DOMAIN world.tiles) = 2
    /\ world.tiles[a].selected
    /\ ~world.tiles[Origin].selected
    /\ Len(world.units) >= 1

-----------------------------------------------------------------------------
(* HexGridGame.tsx: the handlers that set camera.zoom                      *)

\* Bounds of the zoom inputs: wheel deltas of up to MaxWheel half units of
\* zoom, touch distances of up to 2^MaxPinch.
MaxWheel == 2
MaxPinch == 1

\* Math.min
NMin(x, y) == IF NGe(x, y) THEN y ELSE x

\* Mutant of handleWheel: the Math.min with maxZoom is lost.
handleWheel_NoMin(cam, deltaY) ==
    [cam EXCEPT !.zoom =
        NMax(N(minZoom), NAdd(cam.zoom, NMul(NNeg(deltaY), NDiv(N(1), N(1000)))))]

\* handleWheelEvent (and handleWheel): the camera after a wheel event.
handleWheel(cam, deltaY) ==
    LET zoomDelta == NMul(NNeg(deltaY), NDiv(N(1), N(1000)))
    IN  [cam EXCEPT !.zoom =
            NMax(N(minZoom), NMin(N(maxZoom), NAdd(cam.zoom, zoomDelta)))]

\* The deltaY of the wheel events.
WheelDeltas == {N(500 * k) : k \in (-MaxWheel..MaxWheel) \ {0}}

Wheel ==
    \E deltaY \in WheelDeltas :
        /\ camera' = handleWheel(camera, deltaY)
        /\ fn' = "handleWheel"
        /\ UNCHANGED <<gridArgs, ret, selectedHex, hexTiles, view, gestureState,
                       animations, ecsVars>>

\* The distances between two touches: 0 and the powers of two.
TouchDistances == {N(0)} \cup {N(2^k) : k \in 0..MaxPinch}

\* Math.log2 of a quotient of two powers of two.
Log2(x) ==
    N(CHOOSE k \in -MaxPinch..MaxPinch :
          x = IF k >= 0 THEN N(2^k) ELSE NDiv(N(1), N(2^(-k))))

\* handleTouchStart with two touches, distance apart.
TouchStart ==
    \E distance \in TouchDistances :
        /\ gestureState' = [isPinching |-> TRUE, lastTouchDistance |-> distance]
        /\ fn' = "handleTouchStart"
        /\ UNCHANGED <<gridArgs, ret, camera, selectedHex, hexTiles, view,
                       animations, ecsVars>>

\* handleTouchMove with two touches, distance apart: a pinch. A zoomFactor
\* of 0 has Math.log2 = -Infinity, which the clamp turns into minZoom.
TouchMove ==
    \E distance \in TouchDistances :
        /\ camera' =
               IF NGt(gestureState.lastTouchDistance, N(0))
               THEN LET zoomFactor ==
                            NDiv(distance, gestureState.lastTouchDistance)
                    IN  [camera EXCEPT !.zoom =
                            IF zoomFactor = N(0) THEN N(minZoom)
                            ELSE NMax(N(minZoom), NMin(N(maxZoom),
                                     NAdd(camera.zoom, Log2(zoomFactor))))]
               ELSE camera
        /\ gestureState' = [isPinching |-> TRUE, lastTouchDistance |-> distance]
        /\ fn' = "handleTouchMove"
        /\ UNCHANGED <<gridArgs, ret, selectedHex, hexTiles, view, animations,
                       ecsVars>>

\* handleTouchEnd with no touch left: a tap (at the centre of the canvas)
\* when the touch was short and did not move, then the gesture is reset.
TouchEnd ==
    /\ gestureState' = [isPinching |-> FALSE, lastTouchDistance |-> N(0)]
    /\ \/ handleCanvasInteraction(N(0), N(0))
       \/ /\ fn' = "handleTouchEnd"
          /\ UNCHANGED <<gridArgs, ret, camera, selectedHex, hexTiles, view,
                         animations, ecsVars>>

\* handleKeyDown for the keys that zoom: "+" (or "=") and "-".
KeyDown ==
    \E key \in {"+", "-"} :
        /\ camera' =
               [camera EXCEPT !.zoom =
                   IF key = "+"
                   THEN NMin(N(maxZoom), NAdd(@, NDiv(N(1), N(2))))
                   ELSE NMax(N(minZoom), NSub(@, NDiv(N(1), N(2))))]
        /\ fn' = "handleKeyDown"
        /\ UNCHANGED <<gridArgs, ret, selectedHex, hexTiles, view, gestureState,
                       animations, ecsVars>>

NextZoom ==
    Wheel \/ TouchStart \/ TouchMove \/ TouchEnd \/ KeyDown \/ AnimationFrame

\* The component with the tiles around the origin loaded.
InitZoom == InitGame /\ hexTiles = Disc

\* Wheel, pinch, keyboard zoom and taps with their focus animations.
SpecZoom == InitZoom /\ [][NextZoom]_vars

\* C17: camera.zoom stays within [minZoom, maxZoom] = [10, 14] under any
\* interleaving of wheel, pinch, keyboard +/- and animation frames.
C17_ZoomBounds ==
    /\ NGe(camera.zoom, N(minZoom))
    /\ NGe(N(maxZoom), camera.zoom)
    /\ minZoom = 10 /\ maxZoom = 14

\* A wheel event has hit the upper clamp while a focus animation runs.
C17_Witness ==
    /\ fn = "handleWheel"
    /\ camera.zoom = N(maxZoom)
    /\ animations # {}


-----------------------------------------------------------------------------
(* app/components/HexGridGame.tsx: the map data, the visible tiles and     *)
(* the resize of the window.  The zoom is a whole number here, which       *)
(* makes the scale rational.                                               *)

\* Bounds: the window sizes are the multiples of 32 pixels up to
\* 32 * MaxWindow, the map data covers the hexes within MapRadius steps of
\* the origin, and a run has at most MaxViewEvents user events.
MaxWindow == 2
MapRadius == 4
MaxViewEvents == 2

\* Math.ceil(x), as a TLA+ integer.
NCeil(x) == -NFloor(NNeg(x))

\* Math.pow(2, x) for a natural number x.
Pow2(x) == N(2^(x.a))

\* The scale of a zoom level, in pixels per metre.
scaleOf(zoom) == Norm(Pow2(NSub(zoom, N(1))).a, 0, 100000)

\* generateVisibleTiles: the padded viewport rectangle in world coordinates.
viewport(canvas, cameraX, cameraY, zoom) ==
    LET scale == scaleOf(zoom)
        paddingFactor == NDiv(N(3), N(2))
        viewWidthInMeters ==
            NMul(NDiv(N(canvas.width), scale), paddingFactor)
        viewHeightInMeters ==
            NMul(NDiv(N(canvas.height), scale), paddingFactor)
    IN  [viewLeft |-> NSub(cameraX, NDiv(viewWidthInMeters, N(2))),
         viewRight |-> NAdd(cameraX, NDiv(viewWidthInMeters, N(2))),
         viewTop |-> NAdd(cameraY, NDiv(viewHeightInMeters, N(2))),
         viewBottom |-> NSub(cameraY, NDiv(viewHeightInMeters, N(2)))]

\* Mutant of scanRange: the q scan starts at the camera column.
scanRange_FromCamera(v) ==
    LET hexSize == N(ConfigHexSize)
        mid == NDiv(NAdd(v.viewLeft, v.viewRight), N(2))
    IN  [minQ |-> NCeil(NDiv(NMul(NDiv(N(2), N(3)), mid), hexSize)),
         maxQ |-> NCeil(NDiv(NMul(NDiv(N(2), N(3)), v.viewRight), hexSize))
                  + 2,
         minR |-> NFloor(NDiv(NAdd(NMul(NDiv(N(-1), N(3)), v.viewRight),
                                   NMul(NDiv(Sqrt3, N(3)), v.viewBottom)),
                              hexSize)) - 2,
         maxR |-> NCeil(NDiv(NAdd(NMul(NDiv(N(-1), N(3)), v.viewLeft),
                                  NMul(NDiv(Sqrt3, N(3)), v.viewTop)),
                             hexSize)) + 2]

\* generateVisibleTiles: the q and r ranges scanned for the viewport v.
scanRange(v) ==
    LET hexSize == N(ConfigHexSize)
    IN  [minQ |-> NFloor(NDiv(NMul(NDiv(N(2), N(3)), v.viewLeft), hexSize))
                  - 2,
         maxQ |-> NCeil(NDiv(NMul(NDiv(N(2), N(3)), v.viewRight), hexSize))
                  + 2,
         minR |-> NFloor(NDiv(NAdd(NMul(NDiv(N(-1), N(3)), v.viewRight),
                                   NMul(NDiv(Sqrt3, N(3)), v.viewBottom)),
                              hexSize)) - 2,
         maxR |-> NCeil(NDiv(NAdd(NMul(NDiv(N(-1), N(3)), v.viewLeft),
                                  NMul(NDiv(Sqrt3, N(3)), v.viewTop)),
                             hexSize)) + 2]

\* generateVisibleTiles(cameraX, cameraY, zoom) with the map data
\* allMapData (a set of coordinates, not null) and the canvas: the
\* coordinates of the tiles passed to setHexTiles.  Every q, r of the scan
\* range is visited once; a hex is kept when its centre lies in the
\* viewport and the map data has a tile for it.  (v is bound to the one
\* viewport of the call.)
generateVisibleTiles(allMapData, canvas, cameraX, cameraY, zoom) ==
    UNION {
        LET range == scanRange(v)
            hexSize == N(ConfigHexSize)
            worldX(q) == NMul(hexSize, NMul(NDiv(N(3), N(2)), N(q)))
            worldY(q, r) ==
                NMul(hexSize, NAdd(NMul(NDiv(Sqrt3, N(2)), N(q)),
                                   NMul(Sqrt3, N(r))))
            hexesToLoad ==
                {qr \in (range.minQ..range.maxQ) \X (range.minR..range.maxR) :
                    /\ NGe(worldX(qr[1]), v.viewLeft)
                    /\ NGe(v.viewRight, worldX(qr[1]))
                    /\ NGe(worldY(qr[1], qr[2]), v.viewBottom)
                    /\ NGe(v.viewTop, worldY(qr[1], qr[2]))}
            tiles ==
                {[q |-> N(qr[1]), r |-> N(qr[2]), s |-> N(-qr[1] - qr[2])] :
                    qr \in hexesToLoad}
        IN  tiles \cap allMapData :
        v \in {viewport(canvas, cameraX, cameraY, zoom)}}

\* The canvas sizes of the windows.
Windows ==
    {[width |-> 32 * i, height |-> 32 * j] :
        i \in 1..MaxWindow, j \in 1..MaxWindow}

\* The map data of map.json: every hex within MapRadius steps of the
\* origin, or all of them but two.
MapDisc ==
    {h \in {hex(N(i), N(j)) : i \in -MapRadius..MapRadius,
                              j \in -MapRadius..MapRadius} :
        NGe(N(MapRadius), hexDistance(Origin, h))}
MapDatas == {MapDisc, MapDisc \ {Origin, hex(N(1), N(0))}}

\* What the closures of the first render hold: the handlers of the effects
\* with an empty dependency list keep it for good.
firstRender ==
    [camera |-> [x |-> N(0), y |-> N(0), zoom |-> N(initialZoom)],
     allMapData |-> {},
     isLoadingMapData |-> TRUE]

\* The component as mounted in a window of any of the sizes.
InitView ==
    /\ a = Origin /\ b = Origin /\ c = Origin /\ frac = Origin
    /\ pt = PointZero
    /\ size = N(ConfigHexSize)
    /\ fn = "none"
    /\ ret = "undefined"
    /\ camera = firstRender.camera
    /\ selectedHex = {}
    /\ hexTiles = {}
    /\ gestureState = [isPinching |-> FALSE, lastTouchDistance |-> N(0)]
    /\ animations = {}
    /\ view \in {viewMounted(canvas) : canvas \in Windows}
    /\ WorldCreated

\* The effects that follow a render with the camera cam and the view v
\* (map data or camera changed): with the map data loaded,
\* generateVisibleTiles(camera.x, camera.y, camera.zoom) sets the tiles.
tilesEffect(cam, v) ==
    IF v.allMapData # {} /\ ~v.isLoadingMapData
    THEN /\ hexTiles' =
                generateVisibleTiles(CHOOSE m \in v.allMapData : TRUE,
                                     v.canvas, cam.x, cam.y, cam.zoom)
         /\ view' = [v EXCEPT !.generated =
                {[canvas |-> v.canvas, x |-> cam.x, y |-> cam.y,
                  zoom |-> cam.zoom]}]
    ELSE /\ hexTiles' = hexTiles
         /\ view' = v

\* loadMapData completes: the tiles of map.json become the map data.
MapDataLoaded ==
    \E mapData \in MapDatas :
        /\ view.isLoadingMapData
        /\ fn' = "loadMapData"
        /\ tilesEffect(camera, [view EXCEPT !.allMapData = {mapData},
                                            !.isLoadingMapData = FALSE])
        /\ UNCHANGED <<gridArgs, ret, camera, selectedHex, gestureState,
                       animations, ecsVars>>

\* loadMapData fails: the map data stays null.
MapDataFailed ==
    /\ view.isLoadingMapData
    /\ fn' = "loadMapData"
    /\ view' = [view EXCEPT !.isLoadingMapData = FALSE]
    /\ UNCHANGED <<gridArgs, ret, camera, selectedHex, hexTiles,
                   gestureState, animations, ecsVars>>

\* The pointer moves of the drags, in pixels: to the right, up, and to the
\* left and down.
Drags == {<<16, 0>>, <<0, -16>>, <<-16, 16>>}

\* handleMouseMove while dragging, the pointer dx, dy pixels from its last
\* position and past the drag threshold.
MouseMove ==
    \E d \in Drags :
        LET dx == d[1]
            dy == d[2]
            scale == scaleOf(camera.zoom)
            cam == [camera EXCEPT !.x = NSub(@, NDiv(N(dx), scale)),
                                  !.y = NAdd(@, NDiv(N(dy), scale))]
        IN  /\ Abs(dx) > 5 \/ Abs(dy) > 5
            /\ view.events < MaxViewEvents
            /\ camera' = cam
            /\ fn' = "handleMouseMove"
            /\ tilesEffect(cam, [view EXCEPT !.events = @ + 1])
            /\ UNCHANGED <<gridArgs, ret, selectedHex, gestureState,
                           animations, ecsVars>>

\* handleWheelEvent for one notch of the wheel, a whole zoom level.
WheelNotch ==
    \E deltaY \in {N(-1000), N(1000)} :
        LET cam == handleWheel(camera, deltaY)
        IN  /\ view.events < MaxViewEvents
            /\ camera' = cam
            /\ fn' = "handleWheel"
            /\ tilesEffect(cam, [view EXCEPT !.events = @ + 1])
            /\ UNCHANGED <<gridArgs, ret, selectedHex, gestureState,
                           animations, ecsVars>>

\* handleResize: the window has taken another size.  The overlay is
\* shown, the canvas takes the size of the window and the timer is
\* restarted.
Resize ==
    \E canvas \in Windows \ {view.canvas} :
        /\ view.events < MaxViewEvents
        /\ view' = [view EXCEPT !.isResizing = TRUE,
                                !.canvas = canvas,
                                !.resizeTimeout = TRUE,
                                !.events = @ + 1]
        /\ fn' = "handleResize"
        /\ UNCHANGED <<gridArgs, ret, camera, selectedHex, hexTiles,
                       gestureState, animations, ecsVars>>

\* The resize timer fires, 300 ms after the last resize event: the overlay
\* is cleared, and the tiles are reloaded if the closure of handleResize,
\* that of the first render, has the map data.
ResizeTimeout ==
    /\ view.resizeTimeout
    /\ fn' = "resizeTimeout"
    /\ IF firstRender.allMapData # {} /\ ~firstRender.isLoadingMapData
       THEN /\ hexTiles' =
                   generateVisibleTiles(
                       CHOOSE m \in firstRender.allMapData : TRUE,
                       view.canvas, firstRender.camera.x,
                       firstRender.camera.y, firstRender.camera.zoom)
            /\ view' = [view EXCEPT
                   !.isResizing = FALSE,
                   !.resizeTimeout = FALSE,
                   !.generated =
                       {[canvas |-> view.canvas,
                         x |-> firstRender.camera.x,
                         y |-> firstRender.camera.y,
                         zoom |-> firstRender.camera.zoom]}]
       ELSE /\ hexTiles' = hexTiles
            /\ view' = [view EXCEPT !.isResizing = FALSE,
                                    !.resizeTimeout = FALSE]
    /\ UNCHANGED <<gridArgs, ret, camera, selectedHex, gestureState,
                   animations, ecsVars>>

NextView ==
    \/ MapDataLoaded
    \/ MapDataFailed
    \/ MouseMove
    \/ WheelNotch
    \/ Resize
    \/ ResizeTimeout

\* The component from its mount on: the map data, drags, wheel notches and
\* resizes of the window.
SpecView == InitView /\ [][NextView]_vars

\* The same, with the timers of the browser: a pending resize timer fires.
SpecViewFair == SpecView /\ WF_vars(ResizeTimeout)

\* C25: once map data has been loaded, every window resize is eventually
\* followed by clearing the resizing overlay and by a generateVisibleTiles
\* call that reloads the tiles for the new canvas size and the current
\* camera.
C25_ResizeReload ==
    (view.allMapData # {} /\ view.isResizing) ~>
        /\ ~view.isResizing
        /\ view.generated =
               {[canvas |-> view.canvas, x |-> camera.x, y |-> camera.y,
                 zoom |-> camera.zoom]}

\* The centre of the hex h lies in the rectangle v.
InsideView(h, v) ==
    LET centre == hexToPixel(h, N(ConfigHexSize))
    IN  /\ NGe(centre.x, v.viewLeft) /\ NGe(v.viewRight, centre.x)
        /\ NGe(centre.y, v.viewBottom) /\ NGe(v.viewTop, centre.y)

\* The padded viewport of the generateVisibleTiles call g: 1.5 times the
\* view size around the camera.
PaddedView(g) == viewport(g.canvas, g.x, g.y, g.zoom)

\* C26: viewport culling is exact: after generateVisibleTiles(cameraX,
\* cameraY, zoom) with map data loaded, hexTiles holds exactly the tiles of
\* the map data whose hex centre lies inside the padded viewport rectangle,
\* with s = -q - r.
C26_CullingExact ==
    \A g \in view.generated, mapData \in view.allMapData :
        LET v == PaddedView(g)
        IN  /\ hexTiles = {h \in mapData : InsideView(h, v)}
            /\ \A h \in hexTiles : h.s = NSub(NNeg(h.q), h.r)

\* generateVisibleTiles has run after a drag in the larger window: tiles of
\* the map data lie inside and outside the viewport, and a hex inside it
\* has no tile in the map data.
C26_Witness ==
    /\ fn = "handleMouseMove"
    /\ view.generated # {}
    /\ view.canvas.width > SmallWindow.width
    /\ camera.x # N(0)
    /\ \E mapData \in view.allMapData :
          /\ hexTiles # {}
          /\ mapData \ hexTiles # {}
          /\ Origin \notin mapData
          /\ \A g \in view.generated : InsideView(Origin, PaddedView(g))

\* A focusOnHex animation has been started by the step.
AnimationStarted == \E an \in animations' \ animations : an.elapsed = 0

\* C27: only clicks on existing hexes select: selectedHex changes and a
\* focus animation starts only through a click whose computed coordinate is
\* one of the loaded hexTiles; a non-null selectedHex satisfies
\* q + r + s = 0; a click where no tile is loaded leaves selectedHex and the
\* camera unchanged.
C27_OnlyClicksOnTilesSelect ==
    [][/\ selectedHex' # selectedHex \/ AnimationStarted =>
             /\ fn' = "handleCanvasInteraction"
             /\ hexCoord(pt'.x, pt'.y) \in hexTiles
             /\ selectedHex' = {hexCoord(pt'.x, pt'.y)}
       /\ \A h \in selectedHex' : NAdd(NAdd(h.q, h.r), h.s) = N(0)
       /\ fn' = "handleCanvasInteraction"
              /\ hexCoord(pt'.x, pt'.y) \notin hexTiles =>
             /\ selectedHex' = selectedHex
             /\ camera' = camera
             /\ animations' = animations]_vars

\* A click has been made whose computed coordinate is off the plane
\* q + r + s = 0, hence not a loaded tile: nothing is selected.
C27_Witness ==
    /\ fn = "handleCanvasInteraction"
    /\ LET h == hexCoord(pt.x, pt.y)
       IN  /\ NAdd(NAdd(h.q, h.r), h.s) # N(0)
           /\ h \notin hexTiles
    /\ ret = {}
    /\ selectedHex = {}
    /\ animations = {}

=============================================================================
